---- MODULE Spec2Model ----
(***************************************************************************)
(* Model of the document segmenter of the RAG backend:                     *)
(*   backend/services/pdf_service.py  PDFService.chunk_text                *)
(*   backend/services/pdf_service.py  PDFService.chunk_pages               *)
(* Strings are sequences of one-character strings; indices are Python's    *)
(* (0-based, half-open slices, negative indices counted from the end).     *)
(***************************************************************************)
EXTENDS Integers, Sequences, FiniteSets, TLC

\* ------------------------------------------------------------- bounds
MaxLen == 3          \* longest text of the exhaustive family
MaxChunk == 3        \* largest chunk_size / overlap of the exhaustive family
MaxPages == 3        \* most pages handed to chunk_pages
MaxIter == 14        \* window iterations explored per chunk_text call

\* -------------------------------------------------- program constants
DefaultChunkSize == 500
DefaultOverlap == 50
SentenceLookback == 100
WordLookback == 50

\* ------------------------------------------------- Python primitives
Min(a, b) == IF a < b THEN a ELSE b
Max(a, b) == IF a > b THEN a ELSE b

SetMax(S) == CHOOSE x \in S : \A y \in S : y <= x
SetMin(S) == CHOOSE x \in S : \A y \in S : x <= y

\* str.strip() with no argument removes these from both ends
Whitespace == {" ", "\n", "\t"}

\* a slice bound as Python normalises it for a string of length n
SliceIndex(k, n) == IF k < 0 THEN Max(k + n, 0) ELSE Min(k, n)

\* s[i:j]
PySlice(s, i, j) ==
    LET lo == SliceIndex(i, Len(s))
        hi == SliceIndex(j, Len(s))
    IN  IF hi <= lo THEN << >> ELSE SubSeq(s, lo + 1, hi)

\* position p (0-based) is one that s[i:j] selects from a string of length n
InSlice(p, n, i, j) == SliceIndex(i, n) <= p /\ p < SliceIndex(j, n)

\* s.rfind(sub): highest 0-based index where sub occurs in s, else -1
RFind(s, sub) ==
    LET hits == {i \in 0..(Len(s) - Len(sub)) :
                    SubSeq(s, i + 1, i + Len(sub)) = sub}
    IN  IF hits = {} THEN -1 ELSE SetMax(hits)

\* s.strip()
Strip(s) ==
    LET solid == {i \in 1..Len(s) : s[i] \notin Whitespace}
    IN  IF solid = {} THEN << >> ELSE SubSeq(s, SetMin(solid), SetMax(solid))

\* truthiness of a str
Truthy(s) == Len(s) > 0

\* ------------------------------------------------ chunk_text, by line
\* mutant: the text must be strictly shorter than chunk_size
FitsSingleChunk_Strict(text, chunk_size) == Len(text) < chunk_size

\* line 93: the text fits one chunk
FitsSingleChunk(text, chunk_size) == Len(text) <= chunk_size

\* lines 106-111: last sentence terminator in the 100 characters before end
SentenceEnd(text, end) ==
    LET last_portion == PySlice(text, end - SentenceLookback, end)
    IN  Max(Max(RFind(last_portion, <<".", " ">>),
                RFind(last_portion, <<"!", " ">>)),
            RFind(last_portion, <<"?", " ">>))

\* lines 118-119: last space in the 50 characters before end
WordBreak(text, end) ==
    RFind(PySlice(text, end - WordLookback, end), <<" ">>)

\* lines 101-121: the end of the window that starts at start
CutEnd(text, start, chunk_size) ==
    LET end == start + chunk_size
        sentence_end == SentenceEnd(text, end)
        word_break == WordBreak(text, end)
    IN  IF end < Len(text)
        THEN IF sentence_end # -1
             THEN end - SentenceLookback + sentence_end + 1
             ELSE IF word_break # -1
                  THEN end - WordLookback + word_break
                  ELSE end
        ELSE end

\* line 124: the chunk cut from the window
ChunkOf(text, start, end) == Strip(PySlice(text, start, end))

\* lines 125-126: only non-empty chunks are added
AppendChunk(chunks, chunk) ==
    IF Truthy(chunk) THEN Append(chunks, chunk) ELSE chunks

\* mutant: the next window starts one character too far
NextStart_OffByOne(end, chunk_size, overlap) ==
    LET moved == end - overlap + 1
    IN  IF moved <= end - chunk_size THEN end ELSE moved

\* mutant: the overlap is not taken off the end
NextStart_NoOverlap(end, chunk_size, overlap) == end

\* lines 129-133: the start of the next window
NextStart(end, chunk_size, overlap) ==
    LET moved == end - overlap
    IN  IF moved <= end - chunk_size THEN end ELSE moved

\* ----------------------------------------------- chunk_pages, by line
\* mutant: the page is taken from the running counter
ChunkRecord_PageFromIndex(chunk_text, page_num, chunk_index) ==
    [text |-> chunk_text, page |-> chunk_index + 1,
     chunk_index |-> chunk_index, char_count |-> Len(chunk_text)]

\* lines 168-173: a chunk with its metadata
ChunkRecord(chunk_text, page_num, chunk_index) ==
    [text |-> chunk_text, page |-> page_num,
     chunk_index |-> chunk_index, char_count |-> Len(chunk_text)]

\* mutant: the counter restarts at 0 on every page
AnnotateChunks_ResetPerPage(page_chunks, page_num, chunk_index) ==
    [k \in 1..Len(page_chunks) |->
        [text |-> page_chunks[k], page |-> page_num,
         chunk_index |-> k - 1, char_count |-> Len(page_chunks[k])]]

\* lines 167-174: the chunks of one page, numbered from chunk_index on
AnnotateChunks(page_chunks, page_num, chunk_index) ==
    [k \in 1..Len(page_chunks) |->
        ChunkRecord(page_chunks[k], page_num, chunk_index + (k - 1))]

\* ------------------------------------------------------------- inputs
Rep(c, n) == [i \in 1..n |-> c]

\* a text of n letters with ". " at the (0-based) positions dots and a
\* space at the positions spaces
MkText(n, dots, spaces) ==
    [i \in 1..n |->
        IF (i - 1) \in dots THEN "."
        ELSE IF (i - 1) \in spaces \/ (i - 2) \in dots THEN " "
        ELSE "a"]

Alphabet == {"a", " ", "."}

\* every text of at most MaxLen characters
ShortTexts == UNION {[1..n -> Alphabet] : n \in 0..MaxLen}

\* every configuration up to MaxChunk, overlap >= chunk_size included
ShortConfigs == (1..MaxChunk) \X (0..MaxChunk)

Call(text, cs, ov) == [text |-> text, chunk_size |-> cs, overlap |-> ov]

ShortCalls == {Call(t, c[1], c[2]) : t \in ShortTexts, c \in ShortConfigs}

\* pages of 1200 characters under the default configuration and two
\* neighbours of it; sentence ends and a word break near the cut points
LongCalls ==
    {Call(MkText(1200, d, s), c[1], c[2]) :
        d \in SUBSET {400, 751},
        s \in {{}, {480}, 0..1199},
        c \in {<<DefaultChunkSize, DefaultOverlap>>,
               <<DefaultChunkSize, 0>>,
               <<DefaultChunkSize, DefaultChunkSize - DefaultOverlap>>}}

\* texts one character longer than a chunk_size below the lookback widths
TinyLen == 11
TinyCalls ==
    {Call(MkText(TinyLen, {k}, {}), TinyLen - 1, ov) :
        k \in 0..(TinyLen - 2), ov \in 0..1}

TextCalls == ShortCalls \cup LongCalls \cup TinyCalls

\* page texts for chunk_pages: empty, blank, short, ending in a space, long
PageTexts ==
    {<< >>, <<" ">>, <<"a", "b">>, <<"c", "d", "e", " ">>,
     <<"h", "i", "j", "k">> \o Rep("m", MaxChunk)}

\* page numbers grow by one from base + 1 (1-based when base = 0)
PageBases == {0, 4}
MkPages(texts, base) ==
    [i \in 1..Len(texts) |-> [page_number |-> base + i, text |-> texts[i]]]

PageLists ==
    {MkPages(ts, b) :
        ts \in UNION {[1..n -> PageTexts] : n \in 0..MaxPages},
        b \in PageBases}

PagesConfigs == {c \in ShortConfigs : c[1] >= 2}

\* -------------------------------------------------------------- state
VARIABLES
    entry,        \* which function the caller invoked
    pages,        \* chunk_pages: the pages argument
    chunk_size,   \* argument
    overlap,      \* argument
    pc,           \* position in the code
    text,         \* chunk_text: the text argument
    start,        \* chunk_text: window start
    end,          \* chunk_text: end of the last window cut
    chunks,       \* chunk_text: chunks so far / returned
    spans,        \* history: <<start, end>> of every window cut
    seen,         \* history: the window starts met at the loop head
    page_i,       \* chunk_pages: position of the for loop (1-based)
    all_chunks,   \* chunk_pages: chunks so far / returned
    chunk_index   \* chunk_pages: running counter

\* EmbeddingService (services/embedding_service.py)
VARIABLES
    texts,        \* create_embeddings_batch: the texts argument
    emb_pc,       \* position in create_embeddings_batch
    embeddings,   \* create_embeddings_batch: embeddings so far / returned
    model,        \* self.model: "None" or "loaded"
    loads,        \* history: number of SentenceTransformer constructions
    encoded       \* history: the texts handed to self.model.encode

\* LLMService (services/llm_service.py)
VARIABLES
    context_chunks,  \* generate_answer: the context_chunks argument
    llm_pc,          \* position in generate_answer
    llm_result,      \* the dictionary generate_answer returns
    provider_log     \* history: the context of every chat completion call

\* the endpoints of main.py and the vector index behind VectorService
VARIABLES
    index,              \* the external index: id -> [values, metadata]
    stored,             \* history: every record the index accepted
    tmp_files,          \* the files under /tmp: file name -> content
    req_no,             \* number of requests received
    api_pc,             \* position in the endpoint that handles the request
    request,            \* the request being handled
    pdf_data,           \* upload_document: pdf_data
    doc_chunks,         \* upload_document: chunks
    vectors_to_upsert,  \* upload_document: vectors_to_upsert
    upsert_result,      \* what upsert_vectors returned
    search_result,      \* query_documents: search_result
    calls,              \* history: the stages the request invoked
    index_before,       \* history: the index when the request arrived
    response            \* what the caller receives

\* VectorService.store_vector (services/vector_service.py)
VARIABLES
    sv_args,      \* store_vector: texts, embeddings, metadata_list
    sv_pc,        \* position in store_vector
    sv_upsert,    \* store_vector: vectors_to_upsert
    sv_ids,       \* store_vector: vector_ids
    sv_sent,      \* history: the records index.upsert received
    sv_result     \* what store_vector returned

\* callers of create_embedding that run in threads of their own
VARIABLES
    threads       \* per thread: position in create_embedding and its text

\* upload requests handled concurrently by the event loop
VARIABLES
    uploads,      \* per request: position and locals of upload_document
    running,      \* the request the event loop is running, 0 when none
    fs_paths,     \* the directory /tmp: file name -> file
    fs_files      \* the files: file -> content

segVars == <<entry, pages, chunk_size, overlap, pc, text, start, end, chunks,
             spans, seen, page_i, all_chunks, chunk_index>>
embVars == <<texts, emb_pc, embeddings, model, loads, encoded>>
llmVars == <<context_chunks, llm_pc, llm_result, provider_log>>
apiVars == <<index, stored, tmp_files, req_no, api_pc, request, pdf_data,
             doc_chunks, vectors_to_upsert, upsert_result, search_result,
             calls, index_before, response>>
storeVars == <<sv_args, sv_pc, sv_upsert, sv_ids, sv_sent, sv_result>>
concVars == <<uploads, running, fs_paths, fs_files>>
auxVars == <<storeVars, threads, concVars>>
svcVars == <<embVars, llmVars, apiVars, auxVars>>

vars == <<segVars, svcVars>>

textVars == <<text, start, end, chunks, spans, seen>>
pageVars == <<page_i, all_chunks, chunk_index>>
argVars == <<entry, pages, chunk_size, overlap>>

\* a component that takes no part in a specification stays as constructed
SegIdle ==
    /\ entry = "none"
    /\ pages = << >>
    /\ chunk_size = 0
    /\ overlap = 0
    /\ pc = "idle"
    /\ text = << >>
    /\ start = 0
    /\ end = 0
    /\ chunks = << >>
    /\ spans = << >>
    /\ seen = {}
    /\ page_i = 0
    /\ all_chunks = << >>
    /\ chunk_index = 0

\* embedding_service.py lines 20-22: the state after __init__
EmbConstructed ==
    /\ model = "None"
    /\ loads = 0
    /\ encoded = << >>

EmbIdle ==
    /\ EmbConstructed
    /\ texts = << >>
    /\ emb_pc = "idle"
    /\ embeddings = << >>

\* llm_service.py line 219: no generate_answer call in progress
NoResult == [none |-> TRUE]

LlmIdle ==
    /\ context_chunks = << >>
    /\ llm_pc = "idle"
    /\ llm_result = NoResult
    /\ provider_log = << >>

\* main.py as loaded, vector_service.py line 244: nothing stored, no
\* request received
EmptyIndex == [id \in {} |-> NoResult]

ApiIdle ==
    /\ index = EmptyIndex
    /\ stored = << >>
    /\ tmp_files = EmptyIndex
    /\ req_no = 0
    /\ api_pc = "idle"
    /\ request = NoResult
    /\ pdf_data = NoResult
    /\ doc_chunks = << >>
    /\ vectors_to_upsert = << >>
    /\ upsert_result = NoResult
    /\ search_result = NoResult
    /\ calls = << >>
    /\ index_before = EmptyIndex
    /\ response = NoResult

\* no store_vector call, no thread and no concurrent upload
StoreIdle ==
    /\ sv_args = NoResult
    /\ sv_pc = "idle"
    /\ sv_upsert = << >>
    /\ sv_ids = << >>
    /\ sv_sent = << >>
    /\ sv_result = NoResult

ConcIdle ==
    /\ uploads = << >>
    /\ running = 0
    /\ fs_paths = EmptyIndex
    /\ fs_files = << >>

AuxIdle ==
    /\ StoreIdle
    /\ threads = << >>
    /\ ConcIdle

\* number of window iterations of the current chunk_text call
iters == Len(spans)

InitText ==
    \E c \in TextCalls :
        /\ entry = "chunk_text"
        /\ pages = << >>
        /\ chunk_size = c.chunk_size
        /\ overlap = c.overlap
        /\ text = c.text
        /\ pc = "call_text"
        /\ page_i = 0

InitPages ==
    \E ps \in PageLists, c \in PagesConfigs :
        /\ entry = "chunk_pages"
        /\ pages = ps
        /\ chunk_size = c[1]
        /\ overlap = c[2]
        /\ text = << >>
        /\ pc = "pages_for"
        /\ page_i = 1

Init ==
    /\ InitText \/ InitPages
    /\ start = 0
    /\ end = 0
    /\ chunks = << >>
    /\ spans = << >>
    /\ seen = {}
    /\ all_chunks = << >>
    /\ chunk_index = 0
    /\ EmbIdle
    /\ LlmIdle
    /\ ApiIdle
    /\ AuxIdle

\* ------------------------------------------------------- chunk_text
\* lines 89-90
ChunkTextEmpty ==
    /\ pc = "call_text"
    /\ ~Truthy(text)
    /\ chunks' = << >>
    /\ start' = 0
    /\ end' = 0
    /\ spans' = << >>
    /\ seen' = {}
    /\ pc' = "ret_text"
    /\ UNCHANGED <<argVars, pageVars, text>>
    /\ UNCHANGED svcVars

\* lines 93-94
ChunkTextSingle ==
    /\ pc = "call_text"
    /\ Truthy(text)
    /\ FitsSingleChunk(text, chunk_size)
    /\ chunks' = <<text>>
    /\ start' = 0
    /\ end' = 0
    /\ spans' = << >>
    /\ seen' = {}
    /\ pc' = "ret_text"
    /\ UNCHANGED <<argVars, pageVars, text>>
    /\ UNCHANGED svcVars

\* lines 96-97
ChunkTextBegin ==
    /\ pc = "call_text"
    /\ Truthy(text)
    /\ ~FitsSingleChunk(text, chunk_size)
    /\ chunks' = << >>
    /\ start' = 0
    /\ end' = 0
    /\ spans' = << >>
    /\ seen' = {}
    /\ pc' = "loop"
    /\ UNCHANGED <<argVars, pageVars, text>>
    /\ UNCHANGED svcVars

\* lines 99-133: one iteration of the while loop
ChunkTextIterate ==
    /\ pc = "loop"
    /\ start < Len(text)
    /\ iters < MaxIter
    /\ LET cut == CutEnd(text, start, chunk_size)
       IN  /\ end' = cut
           /\ chunks' = AppendChunk(chunks, ChunkOf(text, start, cut))
           /\ spans' = Append(spans, <<start, cut>>)
           /\ start' = NextStart(cut, chunk_size, overlap)
    /\ seen' = seen \cup {start}
    /\ UNCHANGED <<argVars, pageVars, text, pc>>
    /\ UNCHANGED svcVars

\* lines 99, 135-136: the loop ends and chunk_text returns chunks
ChunkTextReturn ==
    /\ pc = "loop"
    /\ ~(start < Len(text))
    /\ pc' = "ret_text"
    /\ UNCHANGED <<argVars, pageVars, textVars>>
    /\ UNCHANGED svcVars

\* the caller of chunk_text receives the list
TextDone ==
    /\ pc = "ret_text"
    /\ entry = "chunk_text"
    /\ pc' = "done"
    /\ UNCHANGED <<argVars, pageVars, textVars>>
    /\ UNCHANGED svcVars

\* ------------------------------------------------------ chunk_pages
\* lines 156-161: a page without text is skipped
PagesSkip ==
    /\ pc = "pages_for"
    /\ page_i <= Len(pages)
    /\ ~Truthy(pages[page_i].text)
    /\ page_i' = page_i + 1
    /\ UNCHANGED <<argVars, textVars, pc, all_chunks, chunk_index>>
    /\ UNCHANGED svcVars

\* lines 156-164: chunk_text is called on the page's text
PagesCall ==
    /\ pc = "pages_for"
    /\ page_i <= Len(pages)
    /\ Truthy(pages[page_i].text)
    /\ text' = pages[page_i].text
    /\ pc' = "call_text"
    /\ UNCHANGED <<argVars, pageVars, start, end, chunks, spans, seen>>
    /\ UNCHANGED svcVars

\* lines 167-174: the page's chunks are added with their metadata
PagesCollect ==
    /\ pc = "ret_text"
    /\ entry = "chunk_pages"
    /\ all_chunks' = all_chunks
            \o AnnotateChunks(chunks, pages[page_i].page_number, chunk_index)
    /\ chunk_index' = chunk_index + Len(chunks)
    /\ page_i' = page_i + 1
    /\ pc' = "pages_for"
    /\ UNCHANGED <<argVars, textVars>>
    /\ UNCHANGED svcVars

\* lines 176-177
PagesReturn ==
    /\ pc = "pages_for"
    /\ page_i > Len(pages)
    /\ pc' = "done"
    /\ UNCHANGED <<argVars, textVars, pageVars>>
    /\ UNCHANGED svcVars

Next ==
    \/ ChunkTextEmpty
    \/ ChunkTextSingle
    \/ ChunkTextBegin
    \/ ChunkTextIterate
    \/ ChunkTextReturn
    \/ TextDone
    \/ PagesSkip
    \/ PagesCall
    \/ PagesCollect
    \/ PagesReturn

Spec == Init /\ [][Next]_vars

\* ------------------------------------------------------- vocabulary
\* the configuration the spec calls valid
ValidConfig == 0 <= overlap /\ overlap < chunk_size

\* chunk_text has returned its list (chunks) to its caller
TextReturned == pc = "ret_text"

\* chunk_pages has returned its list (all_chunks)
PagesReturned == entry = "chunk_pages" /\ pc = "done"

NoWhitespace(s) == \A i \in 1..Len(s) : s[i] \notin Whitespace

IsSubstring(c, t) ==
    \E s \in 0..(Len(t) - Len(c)) : SubSeq(t, s + 1, s + Len(c)) = c

\* sum of char_count over the chunks of cs[1..n] that carry page number p
RECURSIVE CharCountUpTo(_, _, _)
CharCountUpTo(cs, n, p) ==
    IF n = 0 THEN 0
    ELSE CharCountUpTo(cs, n - 1, p)
            + (IF cs[n].page = p THEN cs[n].char_count ELSE 0)

PageCharCount(p) == CharCountUpTo(all_chunks, Len(all_chunks), p)

\* ------------------------------------------------------------- claims

\* C1: for chunk_size > overlap >= 0 the sliding-window loop terminates.
\* The loop body reads only text, chunk_size, overlap and start, and only
\* start changes between iterations, so the loop terminates exactly when
\* no window start is met twice at the loop head.
C1_LoopTerminates ==
    (ValidConfig /\ pc = "loop") => start \notin seen

\* C2: for chunk_size > overlap >= 0 the number of window iterations is at
\* most text_length / (chunk_size - overlap) + 1 (stated without division).
C2_IterationBound ==
    (ValidConfig /\ pc \in {"loop", "ret_text"}) =>
        iters * (chunk_size - overlap) <= Len(text) + (chunk_size - overlap)

\* C3: with overlap >= chunk_size segmentation is rejected: it never enters
\* the loop, produces no chunk and never returns a list.
C3_ConfigRejected ==
    (overlap >= chunk_size) =>
        /\ pc \notin {"loop", "ret_text", "done"}
        /\ chunks = << >>
        /\ all_chunks = << >>

\* C4: under a valid configuration the spans cut by chunk_text cover the
\* text: the first starts at 0, the last ends at or beyond the end, every
\* next one starts at or before the previous one's end, and every
\* character lies in some span text[start:end].
C4_SpansCoverText ==
    (ValidConfig /\ TextReturned /\ ~FitsSingleChunk(text, chunk_size)) =>
        /\ spans # << >>
        /\ spans[1][1] = 0
        /\ spans[Len(spans)][2] >= Len(text)
        /\ \A k \in 1..(Len(spans) - 1) : spans[k + 1][1] <= spans[k][2]
        /\ \A p \in 0..(Len(text) - 1) :
              \E k \in 1..Len(spans) :
                  InSlice(p, Len(text), spans[k][1], spans[k][2])

\* C5: every chunk of chunk_pages is cut from the text of exactly one
\* input page and carries that page's page_number.
C5_PageProvenance ==
    \A k \in 1..Len(all_chunks) :
        LET owners == {i \in 1..Len(pages) :
                          pages[i].page_number = all_chunks[k].page}
        IN  /\ Cardinality(owners) = 1
            /\ \A i \in owners :
                  IsSubstring(all_chunks[k].text, pages[i].text)

C5_Witness ==
    /\ PagesReturned
    /\ Len(all_chunks) >= 3
    /\ \E j, k \in 1..Len(all_chunks) :
          all_chunks[j].page # all_chunks[k].page

\* C6: chunk_index starts at 0, grows by exactly 1 per emitted chunk and
\* is never reset at a page boundary, empty pages included.
C6_ChunkIndexSequence ==
    /\ \A k \in 1..Len(all_chunks) : all_chunks[k].chunk_index = k - 1
    /\ pc = "pages_for" => chunk_index = Len(all_chunks)

C6_Witness ==
    /\ PagesReturned
    /\ \E i \in 1..Len(pages) : ~Truthy(pages[i].text)
    /\ \E k \in 2..Len(all_chunks) :
          /\ all_chunks[k].page # all_chunks[k - 1].page
          /\ all_chunks[k].chunk_index >= 2

\* C7: every chunk emitted by chunk_text and chunk_pages is non-empty
\* after trimming whitespace.
C7_NoBlankChunk ==
    /\ \A k \in 1..Len(chunks) : Strip(chunks[k]) # << >>
    /\ \A k \in 1..Len(all_chunks) : Strip(all_chunks[k].text) # << >>

\* C8 as stated: under a valid configuration the char_count of the chunks
\* of a page sum to at least the length of the page's text.
C8_CharCountCoversPage ==
    (PagesReturned /\ ValidConfig) =>
        \A i \in 1..Len(pages) :
            PageCharCount(pages[i].page_number) >= Len(pages[i].text)

\* C8 amended: the same, for pages whose text holds no whitespace (chunks
\* are trimmed, so whitespace at a cut is counted in no chunk).
C8_CharCountCoversSolidPage ==
    (PagesReturned /\ ValidConfig) =>
        \A i \in 1..Len(pages) :
            NoWhitespace(pages[i].text) =>
                PageCharCount(pages[i].page_number) >= Len(pages[i].text)

C8_Witness ==
    /\ PagesReturned
    /\ ValidConfig
    /\ overlap = 0
    /\ \E i \in 1..Len(pages) :
          /\ NoWhitespace(pages[i].text)
          /\ Len(pages[i].text) > chunk_size
          /\ PageCharCount(pages[i].page_number) = Len(pages[i].text)

\* the scenario of C9: a 1200 character text under chunk_size 500, overlap 50
Scenario1200 ==
    /\ TextReturned
    /\ Len(text) = 1200
    /\ chunk_size = DefaultChunkSize
    /\ overlap = DefaultOverlap

\* C9 as stated: exactly 3 chunks, each of at most 500 characters, the 2nd
\* span beginning exactly 50 characters before the end of the 1st.
C9_ThreeChunks ==
    Scenario1200 =>
        /\ Len(chunks) = 3
        /\ \A k \in 1..Len(chunks) : Len(chunks[k]) <= DefaultChunkSize
        /\ spans[2][1] = spans[1][2] - DefaultOverlap

\* C9 amended: 3 or 4 windows are cut and at most one chunk is emitted per
\* window, exactly 3 when the text holds no whitespace; each chunk has at
\* most 500 characters and the 2nd span begins exactly 50 characters before
\* the end of the 1st.
C9_ThreeOrFourWindows ==
    Scenario1200 =>
        /\ Len(spans) \in {3, 4}
        /\ Len(chunks) <= Len(spans)
        /\ NoWhitespace(text) => Len(chunks) = 3
        /\ \A k \in 1..Len(chunks) : Len(chunks[k]) <= DefaultChunkSize
        /\ spans[2][1] = spans[1][2] - DefaultOverlap

C9_Witness ==
    /\ Scenario1200
    /\ NoWhitespace(text)
    /\ Len(chunks) = 3
    /\ spans[2] = <<450, 950>>

\* C10: a text of at least 1 and at most chunk_size characters comes back
\* as exactly one chunk, the whole text unchanged.
C10_WholeTextSingleChunk ==
    (TextReturned /\ Len(text) >= 1 /\ Len(text) <= chunk_size) =>
        chunks = <<text>>

C10_Witness ==
    /\ TextReturned
    /\ Len(text) = chunk_size
    /\ Len(text) >= 2
    /\ text[1] \in Whitespace
    /\ chunks = <<text>>

\* ====================================================================
\* EmbeddingService (services/embedding_service.py)
\* ====================================================================
MaxBatch == 3        \* longest texts list handed to create_embeddings_batch

\* line 22: self.dimension
Dimension == 384

\* the texts a caller passes: empty, whitespace only, and with content
EmbTexts == { << >>, <<" ">>, <<" ", "\n">>, <<"a">>, <<" ", "b", " ">> }

BatchInputs ==
    UNION { [1..n -> EmbTexts] : n \in 0..MaxBatch }

\* line 41: not text or text.strip() == ""
IsBlankText(t) == ~Truthy(t) \/ Strip(t) = << >>

\* line 43: [0.0] * self.dimension
ZeroVector_ShortByOne == [i \in 1..(Dimension - 1) |-> 0]

ZeroVector == [i \in 1..Dimension |-> 0]

\* line 48: self.model.encode(text).tolist(): the model answers with a
\* vector of its dimension that depends on the text alone; a text with
\* content never encodes to the zero vector
TextCode(t) == Len(t) + Cardinality({i \in 1..Len(t) : t[i] = "b"})

Encode(t) == [i \in 1..Dimension |-> TextCode(t)]

\* lines 31-49: the value create_embedding returns when nothing raises
CreateEmbedding(t) == IF IsBlankText(t) THEN ZeroVector ELSE Encode(t)

\* line 70: embeddings.append(embedding)
AppendEmbedding_Prepend(embs, e) == <<e>> \o embs

AppendEmbedding(embs, e) == Append(embs, e)

\* the position of the for loop of create_embeddings_batch (1-based)
batch_i == Len(embeddings) + 1

InitEmbed ==
    /\ SegIdle
    /\ LlmIdle
    /\ ApiIdle
    /\ AuxIdle
    /\ EmbConstructed
    /\ texts \in BatchInputs
    /\ emb_pc = "call_batch"
    /\ embeddings = << >>

\* lines 60-62: if not texts: return []
BatchEmpty ==
    /\ emb_pc = "call_batch"
    /\ ~Truthy(texts)
    /\ embeddings' = << >>
    /\ emb_pc' = "returned"
    /\ UNCHANGED <<segVars, auxVars, llmVars, apiVars, texts, model, loads, encoded>>

\* lines 64-67
BatchBegin ==
    /\ emb_pc = "call_batch"
    /\ Truthy(texts)
    /\ embeddings' = << >>
    /\ emb_pc' = "batch_for"
    /\ UNCHANGED <<segVars, auxVars, llmVars, apiVars, texts, model, loads, encoded>>

\* lines 68-70 with 41-43: create_embedding returns before _load_model
BatchEmbedBlank ==
    /\ emb_pc = "batch_for"
    /\ batch_i <= Len(texts)
    /\ IsBlankText(texts[batch_i])
    /\ embeddings' = AppendEmbedding(embeddings, ZeroVector)
    /\ UNCHANGED <<segVars, auxVars, llmVars, apiVars, texts, emb_pc, model, loads, encoded>>

\* lines 68-70 with 45-49 and 24-29: the model is loaded if it is not
\* yet, and encodes the text
BatchEmbedEncode ==
    /\ emb_pc = "batch_for"
    /\ batch_i <= Len(texts)
    /\ ~IsBlankText(texts[batch_i])
    /\ model' = "loaded"
    /\ loads' = IF model = "None" THEN loads + 1 ELSE loads
    /\ encoded' = Append(encoded, texts[batch_i])
    /\ embeddings' = AppendEmbedding(embeddings, Encode(texts[batch_i]))
    /\ UNCHANGED <<segVars, auxVars, llmVars, apiVars, texts, emb_pc>>

\* line 28: SentenceTransformer(...) raises; nothing catches it in
\* create_embedding or create_embeddings_batch
BatchLoadRaises ==
    /\ emb_pc = "batch_for"
    /\ batch_i <= Len(texts)
    /\ ~IsBlankText(texts[batch_i])
    /\ model = "None"
    /\ emb_pc' = "raised"
    /\ UNCHANGED <<segVars, auxVars, llmVars, apiVars, texts, embeddings, model, loads, encoded>>

\* line 48: self.model.encode raises
BatchEncodeRaises ==
    /\ emb_pc = "batch_for"
    /\ batch_i <= Len(texts)
    /\ ~IsBlankText(texts[batch_i])
    /\ model' = "loaded"
    /\ loads' = IF model = "None" THEN loads + 1 ELSE loads
    /\ encoded' = Append(encoded, texts[batch_i])
    /\ emb_pc' = "raised"
    /\ UNCHANGED <<segVars, auxVars, llmVars, apiVars, texts, embeddings>>

\* lines 68, 72-73
BatchReturn ==
    /\ emb_pc = "batch_for"
    /\ batch_i > Len(texts)
    /\ emb_pc' = "returned"
    /\ UNCHANGED <<segVars, auxVars, llmVars, apiVars, texts, embeddings, model, loads, encoded>>

NextEmbed ==
    \/ BatchEmpty
    \/ BatchBegin
    \/ BatchEmbedBlank
    \/ BatchEmbedEncode
    \/ BatchLoadRaises
    \/ BatchEncodeRaises
    \/ BatchReturn

SpecEmbed == InitEmbed /\ [][NextEmbed]_vars

BatchReturned == emb_pc = "returned"

\* C19: when create_embeddings_batch returns, it returns one vector for
\* every input text, in the order of the inputs, and the vector at each
\* position is the one create_embedding returns for the text at that
\* position; for an empty input list it returns an empty list.
C19_BatchIsOrderedMap ==
    BatchReturned =>
        /\ Len(embeddings) = Len(texts)
        /\ \A i \in 1..Len(texts) : embeddings[i] = CreateEmbedding(texts[i])
        /\ (texts = << >> => embeddings = << >>)

\* a batch of differing texts, one of them blank, has returned
C19_Witness ==
    /\ BatchReturned
    /\ Len(texts) = MaxBatch
    /\ \E i, j \in 1..Len(texts) :
        /\ i < j
        /\ IsBlankText(texts[i])
        /\ ~IsBlankText(texts[j])
        /\ embeddings[i] # embeddings[j]

\* C20: a text that is empty or only whitespace gets a vector of exactly
\* Dimension entries, all zero; create_embedding neither raises for it
\* nor loads the model nor hands it to the model; inside a batch the
\* zero vector stands at the text's position and the batch goes on.
C20_BlankGivesZeroVector ==
    /\ \A i \in 1..Len(embeddings) :
        IsBlankText(texts[i]) =>
            /\ Len(embeddings[i]) = Dimension
            /\ \A k \in 1..Dimension : embeddings[i][k] = 0
    /\ \A k \in 1..Len(encoded) : ~IsBlankText(encoded[k])
    /\ (model = "loaded" =>
            \E i \in 1..Len(texts) : i <= batch_i /\ ~IsBlankText(texts[i]))
    /\ (emb_pc = "raised" => ~IsBlankText(texts[batch_i]))
    /\ (BatchReturned => Len(embeddings) = Len(texts))

\* a batch of blank texts only has returned and the model was never loaded
C20_Witness ==
    /\ BatchReturned
    /\ Len(texts) = MaxBatch
    /\ \A i \in 1..Len(texts) : IsBlankText(texts[i])
    /\ \E i \in 1..Len(texts) : texts[i] # << >>
    /\ model = "None"
    /\ loads = 0

\* ====================================================================
\* LLMService (services/llm_service.py)
\* ====================================================================
MaxHits == 3         \* longest context_chunks list handed to generate_answer

\* line 188: chunk.get("text", "")[:150]
PreviewLen == 150

\* Python values found in chunk metadata: int and str
PyInt(n) == [t |-> "int", n |-> n, s |-> << >>]
PyStr(s) == [t |-> "str", n |-> 0, s |-> s]

Unknown == <<"U", "n", "k", "n", "o", "w", "n">>

Digits == <<"0", "1", "2", "3", "4", "5", "6", "7", "8", "9">>

\* str(n) of a non-negative int
RECURSIVE Decimal(_)
Decimal(n) ==
    IF n < 10 THEN <<Digits[n + 1]>>
    ELSE Decimal(n \div 10) \o <<Digits[(n % 10) + 1]>>

\* f"{v}": how a value is formatted inside an f-string
Str(v) == IF v.t = "int" THEN Decimal(v.n) ELSE v.s

\* a metadata dictionary from its items
MetaOf(items) ==
    [k \in {it[1] : it \in items} |-> (CHOOSE it \in items : it[1] = k)[2]]

\* lines 125-126, 178-179: metadata.get(key, "Unknown")
Get(metadata, key, default) ==
    IF key \in DOMAIN metadata THEN metadata[key] ELSE default

Filename(chunk) == Get(chunk.metadata, "filename", PyStr(Unknown))

Page(chunk) == Get(chunk.metadata, "page", PyStr(Unknown))

\* line 182: source_key = f"{filename}:{page}"
SourceKey_FilenameOnly(filename, page) == Str(filename)

SourceKey(filename, page) == Str(filename) \o <<":">> \o Str(page)

\* lines 185-189: the citation of a chunk
Citation(chunk) ==
    [filename |-> Filename(chunk),
     page |-> Page(chunk),
     text_preview |-> PySlice(chunk.text, 0, PreviewLen) \o <<".", ".", ".">>]

\* lines 173-192: the for loop of _extract_sources from chunk i on
RECURSIVE ExtractFrom(_, _, _, _)
ExtractFrom(ctx, i, sources, seen_keys) ==
    IF i > Len(ctx) THEN sources
    ELSE LET source_key == SourceKey(Filename(ctx[i]), Page(ctx[i]))
         IN  IF source_key \notin seen_keys
             THEN ExtractFrom(ctx, i + 1,
                              Append(sources, Citation(ctx[i])),
                              seen_keys \cup {source_key})
             ELSE ExtractFrom(ctx, i + 1, sources, seen_keys)

ExtractSources(ctx) == ExtractFrom(ctx, 1, << >>, {})

NoContext ==
    <<"N", "o", " ", "r", "e", "l", "e", "v", "a", "n", "t", " ",
      "c", "o", "n", "t", "e", "x", "t", " ", "f", "o", "u", "n", "d", ".">>

\* lines 129-131: f"[Source {i}: {filename}, Page {page}]\n{text}\n"
ContextPart(i, chunk) ==
    <<"[", "S", "o", "u", "r", "c", "e", " ">> \o Decimal(i) \o <<":", " ">>
        \o Str(Filename(chunk)) \o <<",", " ", "P", "a", "g", "e", " ">>
        \o Str(Page(chunk)) \o <<"]", "\n">> \o chunk.text \o <<"\n">>

\* line 133: "\n".join(context_parts) from part i on
RECURSIVE JoinParts(_, _)
JoinParts(ctx, i) ==
    IF i > Len(ctx) THEN << >>
    ELSE IF i = Len(ctx) THEN ContextPart(i, ctx[i])
    ELSE ContextPart(i, ctx[i]) \o <<"\n">> \o JoinParts(ctx, i + 1)

\* lines 108-133
FormatContext(ctx) ==
    IF ~Truthy(ctx) THEN NoContext ELSE JoinParts(ctx, 1)

\* lines 92-98: the provider's text is passed on as the answer
GenerateSuccess(ctx) ==
    [success |-> TRUE,
     answer |-> "provider answer",
     model |-> "llama-3.3-70b-versatile",
     sources |-> ExtractSources(ctx)]

\* lines 102-106
GenerateFailure_Silent ==
    [success |-> TRUE,
     answer |-> "",
     model |-> "llama-3.3-70b-versatile",
     sources |-> << >>]

GenerateFailure ==
    [success |-> FALSE, error |-> "provider error", answer |-> ""]

\* the hits a caller passes: the same document and page twice with
\* different texts, file names that hold ':' and digits, missing keys,
\* and a text longer than the preview
MkHit(items, txt) == [text |-> txt, metadata |-> MetaOf(items)]

HitUniverse ==
    { MkHit({<<"filename", PyStr(<<"d">>)>>, <<"page", PyInt(1)>>}, <<"x">>),
      MkHit({<<"filename", PyStr(<<"d">>)>>, <<"page", PyInt(1)>>},
            Rep("y", PreviewLen + 1)),
      MkHit({<<"filename", PyStr(<<"d">>)>>, <<"page", PyInt(12)>>}, <<"z">>),
      MkHit({<<"filename", PyStr(<<"d", ":", "1">>)>>, <<"page", PyInt(2)>>},
            <<"x">>),
      MkHit({<<"page", PyInt(1)>>}, <<"x">>),
      MkHit({<<"filename", PyStr(Unknown)>>, <<"source", PyStr(<<"d">>)>>},
            <<"z">>) }

HitLists ==
    UNION { [1..n -> HitUniverse] : n \in 0..MaxHits }

InitSynth ==
    /\ SegIdle
    /\ EmbIdle
    /\ ApiIdle
    /\ AuxIdle
    /\ context_chunks \in HitLists
    /\ llm_pc = "call_generate"
    /\ llm_result = NoResult
    /\ provider_log = << >>

\* lines 54-98: the provider is called once and answers
GenerateAnswerOk ==
    /\ llm_pc = "call_generate"
    /\ provider_log' = Append(provider_log, FormatContext(context_chunks))
    /\ llm_result' = GenerateSuccess(context_chunks)
    /\ llm_pc' = "returned"
    /\ UNCHANGED <<segVars, auxVars, embVars, apiVars, context_chunks>>

\* lines 62-78, 100-106: the provider call (or reading its response)
\* raises and the handler turns it into an error dictionary
GenerateAnswerFails ==
    /\ llm_pc = "call_generate"
    /\ provider_log' = Append(provider_log, FormatContext(context_chunks))
    /\ llm_result' = GenerateFailure
    /\ llm_pc' = "returned"
    /\ UNCHANGED <<segVars, auxVars, embVars, apiVars, context_chunks>>

\* the caller of generate_answer receives the dictionary
GenerateDone ==
    /\ llm_pc = "returned"
    /\ llm_pc' = "done"
    /\ UNCHANGED <<segVars, auxVars, embVars, apiVars, context_chunks, llm_result, provider_log>>

NextSynth ==
    \/ GenerateAnswerOk
    \/ GenerateAnswerFails
    \/ GenerateDone

SpecSynth == InitSynth /\ [][NextSynth]_vars

GenerateReturned == llm_pc \in {"returned", "done"}

\* the (document, page) pair of a hit, as the citation shows it
DocPage(chunk) == <<Filename(chunk), Page(chunk)>>

\* the positions at which a (document, page) pair occurs for the first time
FirstSeen(ctx) ==
    {i \in 1..Len(ctx) : \A j \in 1..(i - 1) : DocPage(ctx[j]) # DocPage(ctx[i])}

\* C15: a successful generate_answer on N hits with M distinct
\* (document, page) pairs returns exactly M citations, one for each
\* distinct pair, in the order in which the pairs first occur among the
\* hits; hits are merged only when document and page are both equal.
C15_CitationsPerDistinctPair ==
    (GenerateReturned /\ llm_result.success) =>
        LET first == FirstSeen(context_chunks)
            sources == llm_result.sources
        IN  /\ Len(sources) = Cardinality(first)
            /\ \A i \in first :
                LET k == Cardinality({j \in first : j <= i})
                IN  /\ sources[k].filename = DocPage(context_chunks[i])[1]
                    /\ sources[k].page = DocPage(context_chunks[i])[2]

\* three hits, two of them on the same document and page, the third on
\* the same document and another page, gave two citations
C15_Witness ==
    /\ GenerateReturned
    /\ llm_result.success
    /\ Len(context_chunks) = 3
    /\ DocPage(context_chunks[1]) = DocPage(context_chunks[3])
    /\ context_chunks[1] # context_chunks[3]
    /\ Filename(context_chunks[1]) = Filename(context_chunks[2])
    /\ Page(context_chunks[1]) # Page(context_chunks[2])
    /\ Len(llm_result.sources) = 2

\* the answer the query endpoint gives when retrieval finds nothing
\* (main.py line 168)
FallbackAnswer ==
    "I couldn't find any relevant information in the uploaded documents to answer your question."

\* C16: generate_answer called with an empty hit list returns the fixed
\* fallback answer and an empty citation list and makes no call to the
\* generation provider.
C16_EmptyHitsShortCircuit ==
    (GenerateReturned /\ context_chunks = << >>) =>
        /\ provider_log = << >>
        /\ llm_result.success
        /\ llm_result.answer = FallbackAnswer
        /\ llm_result.sources = << >>

\* ====================================================================
\* The endpoints (main.py) and VectorService (services/vector_service.py)
\* ====================================================================
MaxRequests == 2     \* requests handled one after the other

\* main.py line 155: top_k=5
TopK == 5

HttpError(code, stage) == [status |-> code, detail |-> stage]

\* line 58: file.filename.endswith('.pdf')
EndsWith(s, suffix) ==
    /\ Len(s) >= Len(suffix)
    /\ SubSeq(s, Len(s) - Len(suffix) + 1, Len(s)) = suffix

PdfSuffix == <<".", "p", "d", "f">>

\* pdf_service.py line 41: " ".join(page_text.split()) on a stripped text
RECURSIVE Collapse(_)
Collapse(s) ==
    IF s = << >> THEN << >>
    ELSE IF Head(s) \in Whitespace
         THEN IF Len(s) > 1 /\ s[2] \in Whitespace
              THEN Collapse(Tail(s))
              ELSE <<" ">> \o Collapse(Tail(s))
         ELSE <<Head(s)>> \o Collapse(Tail(s))

NormalizeWs(s) == Collapse(Strip(s))

\* pdf_service.py lines 35, 49: full_text += f" {page_text}" from page i on
RECURSIVE JoinPages(_, _)
JoinPages(content, i) ==
    IF i > Len(content) THEN << >>
    ELSE <<" ">> \o NormalizeWs(content[i]) \o JoinPages(content, i + 1)

\* main.py line 68: extract_text_from_pdf(temp_file_path) has no
\* definition in the sources at hand; it is taken to read the file as
\* PDFService.extract_text_from_pdf (pdf_service.py lines 23-62) reads
\* the bytes: normalised text of every page, and their join
ExtractTextFromPdf(content) ==
    [full_text |-> NormalizeWs(JoinPages(content, 1)),
     pages |-> [i \in 1..Len(content) |->
                    [page_number |-> i, text |-> NormalizeWs(content[i])]],
     total_pages |-> Len(content)]

\* the same function when the file cannot be read as a PDF
\* (pdf_service.py lines 64-71)
ExtractFailed == [full_text |-> << >>, pages |-> << >>]

\* main.py line 77: chunk_text_with_page_tracking(pages) has no
\* definition in the sources at hand; it is taken to chunk strictly per
\* page as PDFService.chunk_pages does (pages without text are skipped,
\* chunk ids count up through the document), with the keys main.py
\* reads; every page text uploaded here is shorter than a chunk, so a
\* page with text is one chunk
RECURSIVE ChunkTextWithPageTracking(_, _, _)
ChunkTextWithPageTracking(pgs, i, next_id) ==
    IF i > Len(pgs) THEN << >>
    ELSE IF ~Truthy(pgs[i].text)
         THEN ChunkTextWithPageTracking(pgs, i + 1, next_id)
         ELSE <<[text |-> pgs[i].text,
                 page_number |-> pgs[i].page_number,
                 chunk_id |-> next_id]>>
              \o ChunkTextWithPageTracking(pgs, i + 1, next_id + 1)

\* main.py line 95: f"{file.filename}_chunk_{chunk['chunk_id']}"
VectorId(filename, chunk_id) ==
    filename \o <<"_", "c", "h", "u", "n", "k", "_">> \o Decimal(chunk_id)

\* main.py lines 87-101: the record built for a chunk
VectorRecord(filename, chunk, embedding) ==
    [id |-> VectorId(filename, chunk.chunk_id),
     values |-> embedding,
     metadata |-> MetaOf({<<"text", PyStr(chunk.text)>>,
                          <<"source", PyStr(filename)>>,
                          <<"page", PyInt(chunk.page_number)>>,
                          <<"chunk_id", PyInt(chunk.chunk_id)>>})]

\* main.py line 82: the for loop has gone through every chunk
AllEmbedded_Eager(vectors, chunk_list) == TRUE

AllEmbedded(vectors, chunk_list) == Len(vectors) = Len(chunk_list)

\* the index after index.upsert(vectors=...): a record replaces the
\* record that has its id
Upserted(idx, vectors) ==
    LET ids == {vectors[k].id : k \in 1..Len(vectors)}
    IN  [id \in (DOMAIN idx) \cup ids |->
            IF id \in ids
            THEN LET k == CHOOSE k \in 1..Len(vectors) :
                              /\ vectors[k].id = id
                              /\ \A j \in (k + 1)..Len(vectors) : vectors[j].id # id
                 IN  [values |-> vectors[k].values,
                      metadata |-> vectors[k].metadata]
            ELSE idx[id]]

\* the record of one stage call of a request
Stage(name, succeeded) == [stage |-> name, ok |-> succeeded]

\* embedding_service.py lines 41-49: the effect of a create_embedding
\* call on the shared service
CreateEmbeddingCall(t) ==
    /\ model' = IF IsBlankText(t) THEN model ELSE "loaded"
    /\ loads' = IF ~IsBlankText(t) /\ model = "None" THEN loads + 1 ELSE loads
    /\ encoded' = IF IsBlankText(t) THEN encoded ELSE Append(encoded, t)
    /\ UNCHANGED <<texts, emb_pc, embeddings>>

\* the same call when loading the model (line 28) or encoding (line 48)
\* raises
CreateEmbeddingRaises(t) ==
    /\ ~IsBlankText(t)
    /\ \/ /\ model = "None"
          /\ UNCHANGED <<model, loads, encoded>>
       \/ /\ model' = "loaded"
          /\ loads' = IF model = "None" THEN loads + 1 ELSE loads
          /\ encoded' = Append(encoded, t)
    /\ UNCHANGED <<texts, emb_pc, embeddings>>

\* the uploads a client sends: a file name and the page texts of the file
FileNames ==
    { <<"a">> \o PdfSuffix, <<"b">> \o PdfSuffix, <<"n", ".", "t", "x", "t">> }

Contents ==
    { << <<" ">> >>,
      << <<"x">> >>,
      << << >>, <<" ", "w", " ", "\n", "w">> >>,
      << <<"x">>, <<"y", "z">> >> }

\* a request arrives when none is being handled
Receive(req) ==
    /\ api_pc \in {"idle", "done"}
    /\ req_no < MaxRequests
    /\ req_no' = req_no + 1
    /\ request' = req
    /\ pdf_data' = NoResult
    /\ doc_chunks' = << >>
    /\ vectors_to_upsert' = << >>
    /\ upsert_result' = NoResult
    /\ search_result' = NoResult
    /\ calls' = << >>
    /\ index_before' = index
    /\ response' = NoResult
    /\ UNCHANGED <<index, stored, tmp_files>>

\* ------------------------------------------------- upload_document
\* line 51
UploadReceive ==
    /\ \E f \in FileNames, c \in Contents :
        Receive([kind |-> "upload", filename |-> f, content |-> c])
    /\ api_pc' = "up_validate"
    /\ UNCHANGED <<segVars, auxVars, embVars, llmVars>>

\* lines 58-59
UploadRejectType ==
    /\ api_pc = "up_validate"
    /\ ~EndsWith(request.filename, PdfSuffix)
    /\ response' = HttpError(400, "file type")
    /\ api_pc' = "done"
    /\ UNCHANGED <<segVars, auxVars, embVars, llmVars, index, stored, tmp_files, req_no,
                   request, pdf_data, doc_chunks, vectors_to_upsert,
                   upsert_result, search_result, calls, index_before>>

\* lines 61-68: the body is written to /tmp/<filename> and read back by
\* the extraction
UploadExtract ==
    /\ api_pc = "up_validate"
    /\ EndsWith(request.filename, PdfSuffix)
    /\ tmp_files' = [f \in (DOMAIN tmp_files) \cup {request.filename} |->
                        IF f = request.filename THEN request.content
                        ELSE tmp_files[f]]
    /\ pdf_data' \in {ExtractTextFromPdf(tmp_files'[request.filename]),
                      ExtractFailed}
    /\ api_pc' = "up_check"
    /\ UNCHANGED <<segVars, auxVars, embVars, llmVars, index, stored, req_no, request,
                   doc_chunks, vectors_to_upsert, upsert_result,
                   search_result, calls, index_before, response>>

\* line 70: not pdf_data['full_text'].strip()
HasNoText_Never(data) == FALSE

HasNoText(data) == ~Truthy(Strip(data.full_text))

\* lines 70-74
UploadRejectEmpty ==
    /\ api_pc = "up_check"
    /\ HasNoText(pdf_data)
    /\ response' = HttpError(400, "no text")
    /\ api_pc' = "done"
    /\ UNCHANGED <<segVars, auxVars, embVars, llmVars, index, stored, tmp_files, req_no,
                   request, pdf_data, doc_chunks, vectors_to_upsert,
                   upsert_result, search_result, calls, index_before>>

\* lines 77-80
UploadChunk ==
    /\ api_pc = "up_check"
    /\ ~HasNoText(pdf_data)
    /\ doc_chunks' = ChunkTextWithPageTracking(pdf_data.pages, 1, 0)
    /\ vectors_to_upsert' = << >>
    /\ calls' = Append(calls, Stage("segment", TRUE))
    /\ api_pc' = "up_embed"
    /\ UNCHANGED <<segVars, auxVars, embVars, llmVars, index, stored, tmp_files, req_no,
                   request, pdf_data, upsert_result, search_result,
                   index_before, response>>

\* lines 82-101: one iteration of the for loop
UploadEmbed ==
    /\ api_pc = "up_embed"
    /\ ~AllEmbedded(vectors_to_upsert, doc_chunks)
    /\ LET chunk == doc_chunks[Len(vectors_to_upsert) + 1]
       IN  /\ CreateEmbeddingCall(chunk.text)
           /\ vectors_to_upsert' =
                Append(vectors_to_upsert,
                       VectorRecord(request.filename, chunk,
                                    CreateEmbedding(chunk.text)))
    /\ calls' = Append(calls, Stage("embed", TRUE))
    /\ UNCHANGED <<segVars, auxVars, llmVars, index, stored, tmp_files, req_no, api_pc,
                   request, pdf_data, doc_chunks, upsert_result,
                   search_result, index_before, response>>

\* lines 84, 120-122: create_embedding raises
UploadEmbedRaises ==
    /\ api_pc = "up_embed"
    /\ ~AllEmbedded(vectors_to_upsert, doc_chunks)
    /\ CreateEmbeddingRaises(doc_chunks[Len(vectors_to_upsert) + 1].text)
    /\ calls' = Append(calls, Stage("embed", FALSE))
    /\ response' = HttpError(500, "upload")
    /\ api_pc' = "done"
    /\ UNCHANGED <<segVars, auxVars, llmVars, index, stored, tmp_files, req_no, request,
                   pdf_data, doc_chunks, vectors_to_upsert, upsert_result,
                   search_result, index_before>>

\* line 104 with vector_service.py lines 62-81: the index takes the records
UploadUpsertOk ==
    /\ api_pc = "up_embed"
    /\ AllEmbedded(vectors_to_upsert, doc_chunks)
    /\ Truthy(vectors_to_upsert)
    /\ index' = Upserted(index, vectors_to_upsert)
    /\ stored' = stored \o
            [k \in 1..Len(vectors_to_upsert) |->
                [id |-> vectors_to_upsert[k].id,
                 req |-> req_no,
                 filename |-> request.filename,
                 page |-> doc_chunks[k].page_number]]
    /\ upsert_result' = [success |-> TRUE,
                         upserted_count |-> Len(vectors_to_upsert)]
    /\ calls' = Append(calls, Stage("upsert", TRUE))
    /\ api_pc' = "up_respond"
    /\ UNCHANGED <<segVars, auxVars, embVars, llmVars, tmp_files, req_no, request,
                   pdf_data, doc_chunks, vectors_to_upsert, search_result,
                   index_before, response>>

\* line 104 with vector_service.py lines 59-60 and 74, 83-88: there is
\* nothing to upsert, or index.upsert raises; either way upsert_vectors
\* returns an error dictionary
UploadUpsertFails ==
    /\ api_pc = "up_embed"
    /\ AllEmbedded(vectors_to_upsert, doc_chunks)
    /\ upsert_result' =
            [success |-> FALSE,
             error |-> IF ~Truthy(vectors_to_upsert)
                       THEN "No vectors provided" ELSE "Pinecone error"]
    /\ calls' = Append(calls, Stage("upsert", FALSE))
    /\ api_pc' = "up_respond"
    /\ UNCHANGED <<segVars, auxVars, embVars, llmVars, index, stored, tmp_files, req_no,
                   request, pdf_data, doc_chunks, vectors_to_upsert,
                   search_result, index_before, response>>

\* lines 106-116: the temporary file is removed and the success message
\* returned
UploadRespond ==
    /\ api_pc = "up_respond"
    /\ tmp_files' = [f \in (DOMAIN tmp_files) \ {request.filename} |->
                        tmp_files[f]]
    /\ response' = [status |-> 200,
                    message |-> "Document uploaded and processed successfully",
                    filename |-> request.filename,
                    total_pages |-> pdf_data.total_pages,
                    chunks_created |-> Len(doc_chunks),
                    pages_with_text |-> Len(pdf_data.pages)]
    /\ api_pc' = "done"
    /\ UNCHANGED <<segVars, auxVars, embVars, llmVars, index, stored, req_no, request,
                   pdf_data, doc_chunks, vectors_to_upsert, upsert_result,
                   search_result, calls, index_before>>

\* ------------------------------------------------- query_documents
Questions == { << >>, <<" ">>, <<" ", "q">> }

\* the distinct ids of the index in the order in which they were first
\* stored
FirstStored ==
    {k \in 1..Len(stored) : \A j \in 1..(k - 1) : stored[j].id # stored[k].id}

IdsByAge ==
    [r \in 1..Cardinality(FirstStored) |->
        stored[CHOOSE k \in FirstStored :
                   Cardinality({j \in FirstStored : j <= k}) = r].id]

Reverse(s) == [i \in 1..Len(s) |-> s[Len(s) + 1 - i]]

\* vector_service.py lines 178-183: the matches index.query returns are
\* the top_k records by similarity; which records rank first is the
\* index's business, two rankings are explored
Matches(ranking, top_k) ==
    LET ids == IF ranking = "oldest" THEN IdsByAge ELSE Reverse(IdsByAge)
    IN  [r \in 1..Min(top_k, Len(ids)) |->
            [id |-> ids[r], metadata |-> index[ids[r]].metadata]]

\* vector_service.py lines 186-197: a match becomes a result
SearchHit(match) ==
    [id |-> match.id,
     text |-> Get(match.metadata, "text", PyStr(<< >>)).s,
     metadata |-> [key \in (DOMAIN match.metadata) \ {"text"} |->
                        match.metadata[key]]]

\* main.py lines 176-181
ContextChunks(results) ==
    [r \in 1..Len(results) |->
        [text |-> results[r].text, metadata |-> results[r].metadata]]

\* main.py lines 190-206: what the endpoint makes of generate_answer's
\* dictionary
QueryResponse(question, llm) ==
    IF ~llm.success
    THEN HttpError(500, "generate")
    ELSE [status |-> 200,
          success |-> TRUE,
          question |-> question,
          answer |-> llm.answer,
          sources |-> llm.sources,
          model |-> llm.model]

\* lines 125, 136: question = request.get("question", "").strip()
QueryReceive ==
    /\ \E q \in Questions :
        Receive([kind |-> "query", question |-> Strip(q)])
    /\ api_pc' = "q_validate"
    /\ UNCHANGED <<segVars, auxVars, embVars, llmVars>>

\* lines 138-142
QueryRejectBlank ==
    /\ api_pc = "q_validate"
    /\ ~Truthy(request.question)
    /\ response' = HttpError(400, "question")
    /\ api_pc' = "done"
    /\ UNCHANGED <<segVars, auxVars, embVars, llmVars, index, stored, tmp_files, req_no,
                   request, pdf_data, doc_chunks, vectors_to_upsert,
                   upsert_result, search_result, calls, index_before>>

\* line 149
QueryEmbed ==
    /\ api_pc = "q_validate"
    /\ Truthy(request.question)
    /\ CreateEmbeddingCall(request.question)
    /\ calls' = Append(calls, Stage("embed", TRUE))
    /\ api_pc' = "q_search"
    /\ UNCHANGED <<segVars, auxVars, llmVars, index, stored, tmp_files, req_no, request,
                   pdf_data, doc_chunks, vectors_to_upsert, upsert_result,
                   search_result, index_before, response>>

\* lines 149, 210-215: create_embedding raises
QueryEmbedRaises ==
    /\ api_pc = "q_validate"
    /\ Truthy(request.question)
    /\ CreateEmbeddingRaises(request.question)
    /\ calls' = Append(calls, Stage("embed", FALSE))
    /\ response' = HttpError(500, "query")
    /\ api_pc' = "done"
    /\ UNCHANGED <<segVars, auxVars, llmVars, index, stored, tmp_files, req_no, request,
                   pdf_data, doc_chunks, vectors_to_upsert, upsert_result,
                   search_result, index_before>>

\* lines 153-156 with vector_service.py lines 174-205
QuerySearchOk ==
    /\ api_pc = "q_search"
    /\ \E ranking \in {"oldest", "newest"} :
        LET matches == Matches(ranking, TopK)
        IN  search_result' =
                [success |-> TRUE,
                 results |-> [r \in 1..Len(matches) |-> SearchHit(matches[r])],
                 total_found |-> Len(matches)]
    /\ calls' = Append(calls, Stage("search", TRUE))
    /\ api_pc' = "q_results"
    /\ UNCHANGED <<segVars, auxVars, embVars, llmVars, index, stored, tmp_files, req_no,
                   request, pdf_data, doc_chunks, vectors_to_upsert,
                   upsert_result, index_before, response>>

\* lines 153-162 with vector_service.py lines 207-212: index.query raises
QuerySearchFails ==
    /\ api_pc = "q_search"
    /\ search_result' = [success |-> FALSE, error |-> "Search error"]
    /\ calls' = Append(calls, Stage("search", FALSE))
    /\ response' = HttpError(500, "search")
    /\ api_pc' = "done"
    /\ UNCHANGED <<segVars, auxVars, embVars, llmVars, index, stored, tmp_files, req_no,
                   request, pdf_data, doc_chunks, vectors_to_upsert,
                   upsert_result, index_before>>

\* line 165: if not search_result["results"]
NoResults_Never(results) == FALSE

NoResults(results) == ~Truthy(results)

\* lines 165-171
QueryNoResults ==
    /\ api_pc = "q_results"
    /\ NoResults(search_result.results)
    /\ response' = [status |-> 200,
                    success |-> TRUE,
                    answer |-> FallbackAnswer,
                    sources |-> << >>,
                    question |-> request.question]
    /\ api_pc' = "done"
    /\ UNCHANGED <<segVars, auxVars, embVars, llmVars, index, stored, tmp_files, req_no,
                   request, pdf_data, doc_chunks, vectors_to_upsert,
                   upsert_result, search_result, calls, index_before>>

\* lines 176-206 with llm_service.py lines 54-98
QueryGenerateOk ==
    /\ api_pc = "q_results"
    /\ ~NoResults(search_result.results)
    /\ context_chunks' = ContextChunks(search_result.results)
    /\ provider_log' = Append(provider_log, FormatContext(context_chunks'))
    /\ llm_result' = GenerateSuccess(context_chunks')
    /\ llm_pc' = "done"
    /\ calls' = Append(calls, Stage("generate", TRUE))
    /\ response' = QueryResponse(request.question, llm_result')
    /\ api_pc' = "done"
    /\ UNCHANGED <<segVars, auxVars, embVars, index, stored, tmp_files, req_no, request,
                   pdf_data, doc_chunks, vectors_to_upsert, upsert_result,
                   search_result, index_before>>

\* lines 176-194 with llm_service.py lines 54-78, 100-106
QueryGenerateFails ==
    /\ api_pc = "q_results"
    /\ ~NoResults(search_result.results)
    /\ context_chunks' = ContextChunks(search_result.results)
    /\ provider_log' = Append(provider_log, FormatContext(context_chunks'))
    /\ llm_result' = GenerateFailure
    /\ llm_pc' = "done"
    /\ calls' = Append(calls, Stage("generate", FALSE))
    /\ response' = QueryResponse(request.question, llm_result')
    /\ api_pc' = "done"
    /\ UNCHANGED <<segVars, auxVars, embVars, index, stored, tmp_files, req_no, request,
                   pdf_data, doc_chunks, vectors_to_upsert, upsert_result,
                   search_result, index_before>>

NextApi ==
    \/ UploadReceive
    \/ UploadRejectType
    \/ UploadExtract
    \/ UploadRejectEmpty
    \/ UploadChunk
    \/ UploadEmbed
    \/ UploadEmbedRaises
    \/ UploadUpsertOk
    \/ UploadUpsertFails
    \/ UploadRespond
    \/ QueryReceive
    \/ QueryRejectBlank
    \/ QueryEmbed
    \/ QueryEmbedRaises
    \/ QuerySearchOk
    \/ QuerySearchFails
    \/ QueryNoResults
    \/ QueryGenerateOk
    \/ QueryGenerateFails

InitApi ==
    /\ SegIdle
    /\ EmbIdle
    /\ LlmIdle
    /\ ApiIdle
    /\ AuxIdle

SpecApi == InitApi /\ [][NextApi]_vars

\* -------------------------------------------- vocabulary of the claims
IsUpload == "kind" \in DOMAIN request /\ request.kind = "upload"

IsQuery == "kind" \in DOMAIN request /\ request.kind = "query"

Responded == api_pc = "done"

\* the positions in calls of the calls of a stage
StageCalls(name) == {k \in 1..Len(calls) : calls[k].stage = name}

FailedCalls(name) == {k \in StageCalls(name) : ~calls[k].ok}

\* the order of the stages of an upload
UploadRank(name) ==
    CASE name = "segment" -> 1
      [] name = "embed" -> 2
      [] name = "upsert" -> 3

\* the stages of a query in their order
QueryStages == <<"embed", "search", "generate">>

\* the latest record the index accepted under an id
LastStored(id) ==
    stored[CHOOSE k \in 1..Len(stored) :
               /\ stored[k].id = id
               /\ \A j \in (k + 1)..Len(stored) : stored[j].id # id]

\* C11: an upload runs segment, embed, store in this order; upsert is
\* invoked at most once and only after every chunk was embedded
\* successfully; if an embedding call fails there is no upsert, the index
\* is as it was when the request arrived, and the request ends at once
\* with an error, no call being made after the failed one.
C11_UploadStagesInOrder ==
    IsUpload =>
        /\ Cardinality(StageCalls("segment")) <= 1
        /\ Cardinality(StageCalls("upsert")) <= 1
        /\ \A i, j \in 1..Len(calls) :
                i < j => UploadRank(calls[i].stage) <= UploadRank(calls[j].stage)
        /\ Cardinality(StageCalls("embed")) <= Len(doc_chunks)
        /\ (StageCalls("upsert") # {} =>
                /\ StageCalls("segment") # {}
                /\ FailedCalls("embed") = {}
                /\ Cardinality(StageCalls("embed")) = Len(doc_chunks))
        /\ (FailedCalls("embed") # {} =>
                /\ StageCalls("upsert") = {}
                /\ FailedCalls("embed") = {Len(calls)}
                /\ index = index_before
                /\ Responded
                /\ response.status = 500)
        /\ ((StageCalls("upsert") \ FailedCalls("upsert")) = {} =>
                index = index_before)

\* the second chunk of a document failed to embed while the index held
\* an earlier upload
C11_Witness ==
    /\ IsUpload
    /\ Responded
    /\ Len(doc_chunks) = 2
    /\ Len(calls) = 3
    /\ FailedCalls("embed") = {3}
    /\ index # EmptyIndex

\* C12: an upload whose upsert failed (upsert_vectors returned
\* success = False) does not end with the success response; the success
\* response is returned only when the upsert succeeded.
C12_SuccessOnlyIfUpserted ==
    (IsUpload /\ Responded /\ response.status = 200) => upsert_result.success

\* C13: any two records the index accepted from uploads have different
\* ids, also when two uploads use the same file name.
C13_UniqueIds ==
    \A i, j \in 1..Len(stored) : i # j => stored[i].id # stored[j].id

\* C14: the citation built from the stored metadata of a hit names the
\* file and the page of the upload that stored the record.
C14_CitationNamesDocument ==
    (IsQuery /\ "results" \in DOMAIN search_result) =>
        \A r \in 1..Len(search_result.results) :
            LET hit == search_result.results[r]
                cited == ExtractSources(ContextChunks(<<hit>>))[1]
            IN  /\ cited.filename = PyStr(LastStored(hit.id).filename)
                /\ cited.page = PyInt(LastStored(hit.id).page)

\* C17: a query invokes question embedding, index query and generation
\* in this order, each at most once; after a failed stage no stage is
\* invoked and the request ends with an error; an empty result set ends
\* the request with the success response holding the canned answer and
\* no sources, generation not being invoked.
C17_QueryStagesInOrder ==
    IsQuery =>
        /\ Len(calls) <= Len(QueryStages)
        /\ \A k \in 1..Len(calls) : calls[k].stage = QueryStages[k]
        /\ \A k \in 1..(Len(calls) - 1) : calls[k].ok
        /\ ((\E k \in 1..Len(calls) : ~calls[k].ok) =>
                /\ Responded
                /\ response.status = 500)
        /\ (("results" \in DOMAIN search_result /\ search_result.results = << >>) =>
                /\ StageCalls("generate") = {}
                /\ (Responded =>
                        /\ response.status = 200
                        /\ response.success
                        /\ response.answer = FallbackAnswer
                        /\ response.sources = << >>))

\* a query found nothing and was answered with the canned answer
C17_Witness ==
    /\ IsQuery
    /\ Responded
    /\ Len(calls) = 2
    /\ search_result.success
    /\ search_result.results = << >>
    /\ response.answer = FallbackAnswer

\* C18: when the provider call of a query fails, there was exactly one
\* generation call, generate_answer's dictionary has success = False, an
\* error and no sources, and the request ends with an error; a query
\* whose retrieval found nothing ends with the success response, so the
\* two are told apart; no request makes more than one provider call.
C18_GenerationFailureIsExplicit ==
    /\ Len(provider_log) <= req_no
    /\ IsQuery =>
        /\ (FailedCalls("generate") # {} =>
                /\ Cardinality(StageCalls("generate")) = 1
                /\ ~llm_result.success
                /\ "error" \in DOMAIN llm_result
                /\ "sources" \notin DOMAIN llm_result
                /\ Responded
                /\ response.status = 500
                /\ "answer" \notin DOMAIN response)
        /\ (("results" \in DOMAIN search_result /\ search_result.results = << >>
             /\ Responded) =>
                /\ response.status = 200
                /\ response.success)

\* the provider call of a query with hits failed
C18_Witness ==
    /\ IsQuery
    /\ Responded
    /\ FailedCalls("generate") = {3}
    /\ Len(search_result.results) >= 1
    /\ Len(provider_log) = 1

\* ====================================================================
\* chunk_text: where a window is cut
\* ====================================================================
\* C24 (its last clause): in a call with chunk_size > overlap >= 0, every
\* window whose candidate end start + chunk_size lies before the end of
\* the text is cut inside the window: start < cut <= start + chunk_size,
\* also when chunk_size is smaller than the lookback widths.
C24_CutInsideWindow ==
    (entry = "chunk_text" /\ ValidConfig) =>
        \A k \in 1..Len(spans) :
            (spans[k][1] + chunk_size < Len(text)) =>
                /\ spans[k][1] < spans[k][2]
                /\ spans[k][2] <= spans[k][1] + chunk_size

\* ====================================================================
\* upload_document: a document without text
\* ====================================================================
\* the uploaded file has no extractable text: it could not be read, or
\* every page text is empty or whitespace
NoExtractableText ==
    /\ IsUpload
    /\ "full_text" \in DOMAIN pdf_data
    /\ \/ pdf_data = ExtractFailed
       \/ \A i \in 1..Len(request.content) : IsBlankText(request.content[i])

\* C23: an upload of a document without extractable text invokes no
\* segmentation, no embedding and no upsert, leaves the index as it was,
\* and the response it ends with is an error.
C23_EmptyDocumentRejected ==
    NoExtractableText =>
        /\ calls = << >>
        /\ doc_chunks = << >>
        /\ vectors_to_upsert = << >>
        /\ index = index_before
        /\ api_pc \in {"up_check", "done"}
        /\ (Responded => response.status = 400)

\* a readable file whose pages hold only whitespace was rejected while
\* the index held an earlier upload
C23_Witness ==
    /\ NoExtractableText
    /\ pdf_data # ExtractFailed
    /\ Len(request.content) >= 1
    /\ Responded
    /\ response.status = 400
    /\ index # EmptyIndex

\* ====================================================================
\* VectorService.store_vector (services/vector_service.py)
\* ====================================================================
MaxStore == 3        \* longest list handed to store_vector

\* the k-th text, embedding and metadata dictionary a caller passes
ItemsOf(kind, n) ==
    [k \in 1..n |->
        CASE kind = "texts" -> <<"t">> \o Decimal(k)
          [] kind = "embeddings" -> <<k>>
          [] kind = "metadata_list" -> MetaOf({<<"page", PyInt(k)>>})]

StoreArgs ==
    {[texts |-> ItemsOf("texts", a),
      embeddings |-> ItemsOf("embeddings", b),
      metadata_list |-> ItemsOf("metadata_list", c)] :
        a \in 0..MaxStore, b \in 0..MaxStore, c \in 0..MaxStore}

\* line 107: len(texts) != len(embeddings) != len(metadata_list), which
\* Python reads as (a != b) and (b != c)
LengthsDiffer(args) ==
    /\ Len(args.texts) # Len(args.embeddings)
    /\ Len(args.embeddings) # Len(args.metadata_list)

\* line 118: zip stops at the shortest list
ZipLen(args) ==
    Min(Len(args.texts), Min(Len(args.embeddings), Len(args.metadata_list)))

\* line 120: str(uuid.uuid4()), a fresh identifier at every call
Uuid(k) == <<"u">> \o Decimal(k)

\* lines 124-137: the record of position i (0-based)
StoreRecord(args, i) ==
    LET md == args.metadata_list[i + 1]
        added == MetaOf({<<"text", PyStr(args.texts[i + 1])>>,
                         <<"chunk_index", PyInt(i)>>,
                         <<"created_at", PyStr(<<"n", "o", "w">>)>>})
    IN  [id |-> Uuid(i),
         values |-> args.embeddings[i + 1],
         metadata |-> [key \in (DOMAIN md) \cup (DOMAIN added) |->
                            IF key \in DOMAIN added THEN added[key]
                            ELSE md[key]]]

InitStore ==
    /\ SegIdle
    /\ EmbIdle
    /\ LlmIdle
    /\ ApiIdle
    /\ threads = << >>
    /\ ConcIdle
    /\ sv_args \in StoreArgs
    /\ sv_pc = "call"
    /\ sv_upsert = << >>
    /\ sv_ids = << >>
    /\ sv_sent = << >>
    /\ sv_result = NoResult

\* lines 107-108
StoreVectorRaises ==
    /\ sv_pc = "call"
    /\ LengthsDiffer(sv_args)
    /\ sv_pc' = "raised"
    /\ UNCHANGED <<segVars, embVars, llmVars, apiVars, threads, concVars,
                   sv_args, sv_upsert, sv_ids, sv_sent, sv_result>>

\* lines 110-111
StoreVectorEmpty ==
    /\ sv_pc = "call"
    /\ ~LengthsDiffer(sv_args)
    /\ ~Truthy(sv_args.texts)
    /\ sv_result' = [success |-> FALSE, error |-> "No texts provided"]
    /\ sv_pc' = "returned"
    /\ UNCHANGED <<segVars, embVars, llmVars, apiVars, threads, concVars,
                   sv_args, sv_upsert, sv_ids, sv_sent>>

\* lines 113-116
StoreVectorBegin ==
    /\ sv_pc = "call"
    /\ ~LengthsDiffer(sv_args)
    /\ Truthy(sv_args.texts)
    /\ sv_upsert' = << >>
    /\ sv_ids' = << >>
    /\ sv_pc' = "for"
    /\ UNCHANGED <<segVars, embVars, llmVars, apiVars, threads, concVars,
                   sv_args, sv_sent, sv_result>>

\* lines 118-137: one iteration of the for loop
StoreVectorBuild ==
    /\ sv_pc = "for"
    /\ Len(sv_upsert) < ZipLen(sv_args)
    /\ sv_ids' = Append(sv_ids, Uuid(Len(sv_upsert)))
    /\ sv_upsert' = Append(sv_upsert, StoreRecord(sv_args, Len(sv_upsert)))
    /\ UNCHANGED <<segVars, embVars, llmVars, apiVars, threads, concVars,
                   sv_args, sv_pc, sv_sent, sv_result>>

\* lines 139-149: the index takes the records
StoreVectorUpsertOk ==
    /\ sv_pc = "for"
    /\ Len(sv_upsert) = ZipLen(sv_args)
    /\ sv_sent' = sv_upsert
    /\ sv_result' = [success |-> TRUE,
                     upserted_count |-> Len(sv_upsert),
                     vector_ids |-> sv_ids]
    /\ sv_pc' = "returned"
    /\ UNCHANGED <<segVars, embVars, llmVars, apiVars, threads, concVars,
                   sv_args, sv_upsert, sv_ids>>

\* lines 140, 151-156: index.upsert raises
StoreVectorUpsertFails ==
    /\ sv_pc = "for"
    /\ Len(sv_upsert) = ZipLen(sv_args)
    /\ sv_result' = [success |-> FALSE, error |-> "Pinecone error"]
    /\ sv_pc' = "returned"
    /\ UNCHANGED <<segVars, embVars, llmVars, apiVars, threads, concVars,
                   sv_args, sv_upsert, sv_ids, sv_sent>>

NextStore ==
    \/ StoreVectorRaises
    \/ StoreVectorEmpty
    \/ StoreVectorBegin
    \/ StoreVectorBuild
    \/ StoreVectorUpsertOk
    \/ StoreVectorUpsertFails

SpecStore == InitStore /\ [][NextStore]_vars

\* C25: store_vector raises ValueError and sends nothing whenever the
\* three lists do not all have the same length; when it stores, the
\* records sent and the vector_ids returned are len(texts) many, and
\* record i is built from texts[i], embeddings[i] and metadata_list[i].
C25_LengthsChecked ==
    LET same == /\ Len(sv_args.texts) = Len(sv_args.embeddings)
                /\ Len(sv_args.texts) = Len(sv_args.metadata_list)
    IN  (sv_pc # "call") =>
            /\ (~same => (sv_pc = "raised" /\ sv_sent = << >>))
            /\ ((sv_pc = "returned" /\ sv_result.success) =>
                    /\ Len(sv_sent) = Len(sv_args.texts)
                    /\ Len(sv_result.vector_ids) = Len(sv_args.texts)
                    /\ \A k \in 1..Len(sv_sent) :
                        /\ sv_sent[k].values = sv_args.embeddings[k]
                        /\ sv_sent[k].metadata["text"] = PyStr(sv_args.texts[k])
                        /\ sv_sent[k].metadata["page"]
                                = sv_args.metadata_list[k]["page"])

\* ====================================================================
\* EmbeddingService: create_embedding called from several threads
\* ====================================================================
MaxThreads == 2      \* threads that call create_embedding on a fresh service

ThreadIds == 1..MaxThreads

InitLoad ==
    /\ SegIdle
    /\ LlmIdle
    /\ ApiIdle
    /\ StoreIdle
    /\ ConcIdle
    /\ EmbIdle
    /\ threads \in [ThreadIds ->
                        {[pc |-> "call", txt |-> x, used |-> "no"] : x \in EmbTexts}]

\* lines 41-43: a blank text returns before the model is looked at
ThreadReturnZero(t) ==
    /\ threads[t].pc = "call"
    /\ IsBlankText(threads[t].txt)
    /\ threads' = [threads EXCEPT ![t].pc = "returned"]
    /\ UNCHANGED <<segVars, embVars, llmVars, apiVars, storeVars, concVars>>

\* lines 45, 26: _load_model tests self.model is None
ThreadCheck(t) ==
    /\ threads[t].pc = "call"
    /\ ~IsBlankText(threads[t].txt)
    /\ threads' = [threads EXCEPT
                        ![t].pc = IF model = "None" THEN "construct" ELSE "encode"]
    /\ UNCHANGED <<segVars, embVars, llmVars, apiVars, storeVars, concVars>>

\* line 28: self.model = SentenceTransformer(self.model_name)
ThreadConstruct(t) ==
    /\ threads[t].pc = "construct"
    /\ loads' = loads + 1
    /\ model' = "loaded"
    /\ threads' = [threads EXCEPT ![t].pc = "encode"]
    /\ UNCHANGED <<segVars, llmVars, apiVars, storeVars, concVars,
                   texts, emb_pc, embeddings, encoded>>

\* lines 48-49: self.model.encode(text)
ThreadEncode(t) ==
    /\ threads[t].pc = "encode"
    /\ encoded' = Append(encoded, threads[t].txt)
    /\ threads' = [threads EXCEPT ![t].pc = "returned", ![t].used = model]
    /\ UNCHANGED <<segVars, llmVars, apiVars, storeVars, concVars,
                   texts, emb_pc, embeddings, model, loads>>

NextLoad ==
    \E t \in ThreadIds :
        \/ ThreadReturnZero(t)
        \/ ThreadCheck(t)
        \/ ThreadConstruct(t)
        \/ ThreadEncode(t)

SpecLoad == InitLoad /\ [][NextLoad]_vars

\* C21: however the first calls of the threads interleave, the model is
\* constructed at most once (exactly once when it is used), and no call
\* hands its text to a model that has not been constructed.
C21_ModelBuiltOnce ==
    /\ loads <= 1
    /\ \A t \in DOMAIN threads :
        /\ threads[t].used # "None"
        /\ (threads[t].used = "loaded" => loads = 1)

\* ====================================================================
\* upload_document: requests handled concurrently by the event loop
\* ====================================================================
MaxUploads == 2      \* upload requests in flight at the same time

UploadIds == 1..MaxUploads

\* the file names that pass the test of main.py line 58
PdfNames == {f \in FileNames : EndsWith(f, PdfSuffix)}

\* main.py line 65: buffer.write(content) at the start of a file that
\* was truncated when it was opened and may have been written since
Overwrite(old, new) == new \o SubSeq(old, Len(new) + 1, Len(old))

InitConc ==
    /\ SegIdle
    /\ EmbIdle
    /\ LlmIdle
    /\ ApiIdle
    /\ StoreIdle
    /\ threads = << >>
    /\ running = 0
    /\ fs_paths = EmptyIndex
    /\ fs_files = << >>
    /\ uploads \in [UploadIds ->
                        {[pc |-> "new", filename |-> f, content |-> c, fd |-> 0,
                          pdf_data |-> NoResult, chunks |-> << >>,
                          vectors |-> << >>, response |-> NoResult] :
                            f \in PdfNames, c \in Contents}]

\* main.py lines 62-64: open(temp_file_path, "wb") creates or truncates
\* /tmp/<filename>; the coroutine is then suspended in await file.read()
ConcOpen(r) ==
    /\ running = 0
    /\ uploads[r].pc = "new"
    /\ LET name == uploads[r].filename
           known == name \in DOMAIN fs_paths
           file == IF known THEN fs_paths[name] ELSE Len(fs_files) + 1
       IN  /\ fs_files' = IF known THEN [fs_files EXCEPT ![file] = << >>]
                          ELSE Append(fs_files, << >>)
           /\ fs_paths' = [f \in (DOMAIN fs_paths) \cup {name} |->
                                IF f = name THEN file ELSE fs_paths[f]]
           /\ uploads' = [uploads EXCEPT ![r].pc = "reading", ![r].fd = file]
    /\ UNCHANGED <<segVars, embVars, llmVars, apiVars, storeVars, threads,
                   running>>

\* main.py lines 64-80: the coroutine resumes, writes its bytes to the
\* file it opened, has /tmp/<filename> extracted and the pages chunked;
\* from here to its response it is not suspended again
ConcResume(r) ==
    /\ running = 0
    /\ uploads[r].pc = "reading"
    /\ fs_files' = [fs_files EXCEPT
                        ![uploads[r].fd] = Overwrite(@, uploads[r].content)]
    /\ \E data \in (IF uploads[r].filename \in DOMAIN fs_paths
                    THEN {ExtractTextFromPdf(
                              fs_files'[fs_paths[uploads[r].filename]]),
                          ExtractFailed}
                    ELSE {ExtractFailed}) :
        IF HasNoText(data)
        THEN /\ uploads' = [uploads EXCEPT
                                ![r].pdf_data = data,
                                ![r].response = HttpError(400, "no text"),
                                ![r].pc = "done"]
             /\ running' = 0
        ELSE /\ uploads' = [uploads EXCEPT
                                ![r].pdf_data = data,
                                ![r].chunks =
                                    ChunkTextWithPageTracking(data.pages, 1, 0),
                                ![r].pc = "embed"]
             /\ running' = r
    /\ UNCHANGED <<segVars, embVars, llmVars, apiVars, storeVars, threads,
                   fs_paths>>

\* main.py lines 82-101: one iteration of the for loop
ConcEmbed(r) ==
    /\ running = r
    /\ uploads[r].pc = "embed"
    /\ ~AllEmbedded(uploads[r].vectors, uploads[r].chunks)
    /\ LET chunk == uploads[r].chunks[Len(uploads[r].vectors) + 1]
       IN  /\ CreateEmbeddingCall(chunk.text)
           /\ uploads' = [uploads EXCEPT
                            ![r].vectors =
                                Append(@, VectorRecord(uploads[r].filename, chunk,
                                                       CreateEmbedding(chunk.text)))]
    /\ UNCHANGED <<segVars, llmVars, apiVars, storeVars, threads, running,
                   fs_paths, fs_files>>

\* main.py lines 84, 120-122: create_embedding raises; the temporary
\* file stays
ConcEmbedRaises(r) ==
    /\ running = r
    /\ uploads[r].pc = "embed"
    /\ ~AllEmbedded(uploads[r].vectors, uploads[r].chunks)
    /\ CreateEmbeddingRaises(uploads[r].chunks[Len(uploads[r].vectors) + 1].text)
    /\ uploads' = [uploads EXCEPT
                        ![r].response = HttpError(500, "upload"),
                        ![r].pc = "done"]
    /\ running' = 0
    /\ UNCHANGED <<segVars, llmVars, apiVars, storeVars, threads, fs_paths,
                   fs_files>>

\* main.py lines 104-116: upsert_vectors (its result is not looked at),
\* os.remove(temp_file_path) and the success message
ConcFinish(r) ==
    /\ running = r
    /\ uploads[r].pc = "embed"
    /\ AllEmbedded(uploads[r].vectors, uploads[r].chunks)
    /\ \/ /\ Truthy(uploads[r].vectors)
          /\ index' = Upserted(index, uploads[r].vectors)
          /\ stored' = stored \o
                [k \in 1..Len(uploads[r].vectors) |->
                    [id |-> uploads[r].vectors[k].id,
                     req |-> r,
                     filename |-> uploads[r].filename,
                     page |-> uploads[r].chunks[k].page_number]]
       \/ UNCHANGED <<index, stored>>
    /\ fs_paths' = [f \in (DOMAIN fs_paths) \ {uploads[r].filename} |->
                        fs_paths[f]]
    /\ uploads' = [uploads EXCEPT
                        ![r].response =
                            [status |-> 200,
                             filename |-> uploads[r].filename,
                             chunks_created |-> Len(uploads[r].chunks)],
                        ![r].pc = "done"]
    /\ running' = 0
    /\ UNCHANGED <<segVars, embVars, llmVars, storeVars, threads, fs_files,
                   tmp_files, req_no, api_pc, request, pdf_data, doc_chunks,
                   vectors_to_upsert, upsert_result, search_result, calls,
                   index_before, response>>

NextConc ==
    \E r \in UploadIds :
        \/ ConcOpen(r)
        \/ ConcResume(r)
        \/ ConcEmbed(r)
        \/ ConcEmbedRaises(r)
        \/ ConcFinish(r)

SpecConc == InitConc /\ [][NextConc]_vars

\* C22: under every interleaving of two uploads, also with the same
\* file name, what a request extracted, chunked and prepared for the
\* index is the text of the bytes it uploaded itself.
C22_OwnBytesOnly ==
    \A r \in DOMAIN uploads :
        ("total_pages" \in DOMAIN uploads[r].pdf_data) =>
            LET own == ExtractTextFromPdf(uploads[r].content)
            IN  /\ uploads[r].pdf_data = own
                /\ (uploads[r].pc \in {"embed", "done"} =>
                        uploads[r].chunks
                            = ChunkTextWithPageTracking(own.pages, 1, 0))
                /\ \A k \in 1..Len(uploads[r].vectors) :
                        uploads[r].vectors[k].metadata["text"]
                            = PyStr(uploads[r].chunks[k].text)

====
